---- MODULE Spec2Model ----
(***************************************************************************)
(* Model of crates/core/src/rpc/jito.rs: the Jito bundle RPC endpoints     *)
(* sendBundle and simulateBundle of SurfpoolJitoRpc.                       *)
(*                                                                         *)
(* Strings are sequences of one-character strings.  Byte strings are       *)
(* sequences of integers in 0..255.                                        *)
(***************************************************************************)
EXTENDS Integers, Sequences, FiniteSets, TLC

(* ----------------------------- bounds ---------------------------------- *)
\* Longest bundle a request carries.
MaxBundle == 3
\* Number of times the slot advances concurrently with a request.
MaxSlotAdvance == 1
\* Number of single-transaction submissions made by other requests.
MaxExternal == 1
\* Width in bytes of a signature in the model (solana_signature: 64).
SigBytes == 2
\* Largest balance the modelled account can hold.
MaxBalance == 2

(* ------------------------- binary encodings ---------------------------- *)
\* bs58 alphabet (Bitcoin), as used by bs58::encode / Signature::to_string.
B58Alphabet ==
  <<
     "1", "2", "3", "4", "5", "6", "7", "8", "9", "A", "B", "C", "D", "E", "F", "G",
     "H", "J", "K", "L", "M", "N", "P", "Q", "R", "S", "T", "U", "V", "W", "X", "Y",
     "Z", "a", "b", "c", "d", "e", "f", "g", "h", "i", "j", "k", "m", "n", "o", "p",
     "q", "r", "s", "t", "u", "v", "w", "x", "y", "z" >>

\* base64 STANDARD alphabet.
B64Alphabet ==
  <<
     "A", "B", "C", "D", "E", "F", "G", "H", "I", "J", "K", "L", "M", "N", "O", "P",
     "Q", "R", "S", "T", "U", "V", "W", "X", "Y", "Z", "a", "b", "c", "d", "e", "f",
     "g", "h", "i", "j", "k", "l", "m", "n", "o", "p", "q", "r", "s", "t", "u", "v",
     "w", "x", "y", "z", "0", "1", "2", "3", "4", "5", "6", "7", "8", "9", "+", "/" >>

RECURSIVE Pow(_, _)
Pow(b, n) == IF n = 0 THEN 1 ELSE b * Pow(b, n - 1)

\* Index (0-based) of character c in alphabet a, or -1.
IndexOf(a, c) ==
  IF \E i \in 1..Len(a) : a[i] = c
    THEN (CHOOSE i \in 1..Len(a) : a[i] = c) - 1
    ELSE -1

\* Number of leading elements of s equal to z.
RECURSIVE LeadingCount(_, _)
LeadingCount(s, z) ==
  IF s = <<>> \/ Head(s) # z THEN 0 ELSE 1 + LeadingCount(Tail(s), z)

\* Big-endian value of a digit sequence in the given base.
RECURSIVE ValueOf(_, _)
ValueOf(digits, base) ==
  IF digits = <<>> THEN 0
  ELSE digits[Len(digits)] + base * ValueOf(SubSeq(digits, 1, Len(digits) - 1), base)

\* Minimal big-endian digit sequence of n in the given base (<<>> for 0).
RECURSIVE DigitsOf(_, _)
DigitsOf(n, base) ==
  IF n = 0 THEN <<>> ELSE Append(DigitsOf(n \div base, base), n % base)

Repeat(x, n) == [i \in 1..n |-> x]

\* bs58::encode(bytes).into_string()
Base58Encode(bytes) ==
  LET zeros  == LeadingCount(bytes, 0)
      rest   == SubSeq(bytes, zeros + 1, Len(bytes))
      digits == DigitsOf(ValueOf(rest, 256), 58)
  IN  Repeat("1", zeros) \o [i \in 1..Len(digits) |-> B58Alphabet[digits[i] + 1]]

\* bs58::decode(s): [ok |-> TRUE, bytes |-> ..] or [ok |-> FALSE].
Base58Decode(s) ==
  IF \E i \in 1..Len(s) : IndexOf(B58Alphabet, s[i]) = -1
    THEN [ok |-> FALSE, bytes |-> <<>>]
    ELSE LET zeros  == LeadingCount(s, "1")
             rest   == SubSeq(s, zeros + 1, Len(s))
             digits == [i \in 1..Len(rest) |-> IndexOf(B58Alphabet, rest[i])]
         IN  [ok |-> TRUE,
              bytes |-> Repeat(0, zeros) \o DigitsOf(ValueOf(digits, 58), 256)]

\* base64 STANDARD encoding with '=' padding.
RECURSIVE Base64Encode(_)
Base64Encode(bytes) ==
  IF bytes = <<>> THEN <<>>
  ELSE LET n  == IF Len(bytes) >= 3 THEN 3 ELSE Len(bytes)
           b1 == bytes[1]
           b2 == IF n >= 2 THEN bytes[2] ELSE 0
           b3 == IF n >= 3 THEN bytes[3] ELSE 0
           c1 == B64Alphabet[(b1 \div 4) + 1]
           c2 == B64Alphabet[((b1 % 4) * 16 + (b2 \div 16)) + 1]
           c3 == IF n >= 2 THEN B64Alphabet[((b2 % 16) * 4 + (b3 \div 64)) + 1] ELSE "="
           c4 == IF n >= 3 THEN B64Alphabet[(b3 % 64) + 1] ELSE "="
       IN  <<c1, c2, c3, c4>> \o Base64Encode(SubSeq(bytes, n + 1, Len(bytes)))

\* base64 STANDARD decoding: length a multiple of 4, padding only at the
\* end of the last quantum, trailing bits zero.
RECURSIVE Base64Decode(_)
Base64Decode(s) ==
  IF s = <<>> THEN [ok |-> TRUE, bytes |-> <<>>]
  ELSE IF Len(s) < 4 THEN [ok |-> FALSE, bytes |-> <<>>]
  ELSE LET last == Len(s) = 4
           pad  == IF last /\ s[3] = "=" /\ s[4] = "=" THEN 2
                   ELSE IF last /\ s[4] = "=" THEN 1 ELSE 0
           v(i) == IF i > 4 - pad THEN 0 ELSE IndexOf(B64Alphabet, s[i])
           bad  == \E i \in 1..(4 - pad) : IndexOf(B64Alphabet, s[i]) = -1
           b1   == v(1) * 4 + (v(2) \div 16)
           b2   == (v(2) % 16) * 16 + (v(3) \div 4)
           b3   == (v(3) % 4) * 64 + v(4)
           loose == \/ pad = 2 /\ v(2) % 16 # 0
                    \/ pad = 1 /\ v(3) % 4 # 0
           rest == Base64Decode(SubSeq(s, 5, Len(s)))
       IN  IF bad THEN [ok |-> FALSE, bytes |-> <<>>]
           ELSE IF loose \/ ~rest.ok THEN [ok |-> FALSE, bytes |-> <<>>]
           ELSE [ok |-> TRUE,
                 bytes |-> (IF pad = 2 THEN <<b1>>
                            ELSE IF pad = 1 THEN <<b1, b2>>
                            ELSE <<b1, b2, b3>>) \o rest.bytes]

(* ------------------------ values and errors ---------------------------- *)
\* Option::None of an enumerated option.
NoneV == "None"

\* jsonrpc_core::Error {code, message, data}.  A message is a sequence of
\* strings (the pieces format! concatenates); data is <<>> when absent.
RpcError(code, message, data) == [code |-> code, message |-> message, data |-> data]
NoError == RpcError("", <<>>, <<>>)

\* Error::invalid_params(message)
InvalidParams(message) == RpcError("InvalidParams", message, <<>>)

\* RpcCustomError::NodeUnhealthy { num_slots_behind: None }.into()
NodeUnhealthy ==
  RpcError("NodeUnhealthy", <<"Node is unhealthy">>, <<"numSlotsBehind", NoneV>>)

Ok(v)  == [ok |-> TRUE,  value |-> v,    err |-> NoError]
Err(e) == [ok |-> FALSE, value |-> <<>>, err |-> e]

(* --------------------------- transactions ------------------------------ *)
\* The transactions of the model: a deposit to and a withdrawal from one
\* account.  The withdrawal succeeds only after a deposit took effect.
Txs == {"dep", "wd"}

\* Wire bytes of a transaction.
Serialize(tx) == IF tx = "dep" THEN <<1>> ELSE <<2>>

\* Encoded transaction strings a caller sends: Base58 forms, a Base64 form,
\* and a string that is well formed under neither encoding.
TxStrings ==
  { Base58Encode(Serialize("dep")), Base58Encode(Serialize("wd")),
    Base64Encode(Serialize("wd")), <<"!">> }

\* crate::rpc::utils::decode_and_deserialize::<VersionedTransaction>
DecodeAndDeserialize(tx_data, binary_encoding) ==
  LET raw == IF binary_encoding = "base58" THEN Base58Decode(tx_data)
                                           ELSE Base64Decode(tx_data)
  IN  IF ~raw.ok
        THEN [ok |-> FALSE, tx |-> NoneV,
              err |-> InvalidParams(<<"invalid ", binary_encoding, " encoding">>)]
      ELSE IF \E tx \in Txs : Serialize(tx) = raw.bytes
        THEN [ok |-> TRUE, tx |-> CHOOSE tx \in Txs : Serialize(tx) = raw.bytes,
              err |-> NoError]
      ELSE [ok |-> FALSE, tx |-> NoneV,
            err |-> InvalidParams(<<"failed to deserialize">>)]

\* Signature carried by a transaction.
SignatureOf(tx) ==
  [i \in 1..SigBytes |-> IF tx = "dep" THEN (IF i = 1 THEN 0 ELSE 7) ELSE 100 + i]

\* Signature::from_str: Base58 text of exactly SigBytes bytes.
SignatureFromStr(s) ==
  LET raw == Base58Decode(s)
  IN  IF raw.ok /\ Len(raw.bytes) = SigBytes
        THEN [ok |-> TRUE, sig |-> raw.bytes, err |-> <<>>]
      ELSE IF raw.ok
        THEN [ok |-> FALSE, sig |-> <<>>, err |-> <<"WrongSize">>]
      ELSE [ok |-> FALSE, sig |-> <<>>, err |-> <<"Invalid">>]

\* Signature::to_string
SignatureToString(sig) == Base58Encode(sig)

(* ------------------------ execution engine ----------------------------- *)
\* Effect of one transaction on the account balance, with the metadata the
\* engine reports for it.
Execute(b, tx) ==
  IF tx = "dep"
    THEN IF b < MaxBalance
           THEN [ok |-> TRUE, bal |-> b + 1, err |-> NoneV,
                 logs |-> <<"deposit">>, units |-> 150, return_data |-> <<>>]
           ELSE [ok |-> FALSE, bal |-> b, err |-> "AccountFull",
                 logs |-> <<"deposit", "failed">>, units |-> 90,
                 return_data |-> <<255, b>>]
    ELSE IF b > 0
           THEN [ok |-> TRUE, bal |-> b - 1, err |-> NoneV,
                 logs |-> <<"withdraw">>, units |-> 300, return_data |-> <<0, b - 1>>]
           ELSE [ok |-> FALSE, bal |-> b, err |-> "InsufficientFunds",
                 logs |-> <<"withdraw", "failed">>, units |-> 120,
                 return_data |-> <<>>]

\* Variant of SimulateBundleFrom that goes on after a failing member.
RECURSIVE SimulateBundleFrom_Continue(_, _, _)
SimulateBundleFrom_Continue(b, txs, sigverify) ==
  IF txs = <<>> THEN <<>>
  ELSE LET r == Execute(b, Head(txs))
       IN  <<r>> \o SimulateBundleFrom_Continue(r.bal, Tail(txs), sigverify)

\* SvmLocker::simulate_bundle: chained simulation on a copy of the state;
\* member k runs against the balance left by members 0..k-1, and members
\* after a failing member are not simulated.
RECURSIVE SimulateBundleFrom(_, _, _)
SimulateBundleFrom(b, txs, sigverify) ==
  IF txs = <<>> THEN <<>>
  ELSE LET r == Execute(b, Head(txs))
       IN  IF r.ok THEN <<r>> \o SimulateBundleFrom(r.bal, Tail(txs), sigverify)
                   ELSE <<r>>

\* RpcSendTransactionConfig::default()
DefaultSendConfig == [some |-> FALSE, skip_preflight |-> FALSE, encoding |-> NoneV]

\* Option<RpcSendTransactionConfig> values a caller passes.
SendConfigs ==
  {DefaultSendConfig} \cup
  [some : {TRUE}, skip_preflight : BOOLEAN, encoding : {NoneV, "base64"}]

\* SurfpoolFullRpc::send_transaction: decodes under the config's encoding
\* (default Base58), processes the transaction and, when it succeeds,
\* commits its effect and returns the signature string.  sigOk = FALSE is
\* the case of a primitive that returns text that is not a signature.
SendTransaction(b, tx_data, cfg, sigOk) ==
  LET enc == IF cfg.encoding = NoneV THEN "base58" ELSE cfg.encoding
      d   == DecodeAndDeserialize(tx_data, enc)
      r   == Execute(b, d.tx)
  IN  IF ~d.ok THEN [ok |-> FALSE, bal |-> b, sig |-> <<>>, err |-> d.err]
      ELSE IF ~r.ok
        THEN [ok |-> FALSE, bal |-> b, sig |-> <<>>,
              err |-> IF cfg.skip_preflight
                        THEN RpcError("TransactionFailed",
                                      <<"Transaction execution failed: ", r.err>>, <<>>)
                        ELSE RpcError("SendTransactionPreflightFailure",
                                      <<"Transaction simulation failed: ", r.err>>,
                                      <<r.err>> \o r.logs)]
      ELSE [ok |-> TRUE, bal |-> r.bal,
            sig |-> IF sigOk THEN SignatureToString(SignatureOf(d.tx)) ELSE <<"0">>,
            err |-> NoError]

(* ----------------------------- sendBundle ------------------------------ *)
\* Variant of SendBundlePrecheck that looks at the context first.
SendBundlePrecheck_HealthFirst(txs, m) ==
  IF ~m THEN Err(NodeUnhealthy)
  ELSE IF txs = <<>> THEN Err(InvalidParams(<<"Bundle cannot be empty">>))
  ELSE Ok(<<>>)

\* send_bundle, lines 111-120: the empty check, then the context check.
SendBundlePrecheck(txs, m) ==
  IF txs = <<>> THEN Err(InvalidParams(<<"Bundle cannot be empty">>))
  ELSE IF ~m THEN Err(NodeUnhealthy)
  ELSE Ok(<<>>)

\* The config send_bundle hands to send_transaction (line 128).
SubmitConfig(cfg) == cfg

\* Variant of BundleTxError that does not copy the error data.
BundleTxError_DropsData(i, e) ==
  RpcError(e.code,
           <<"Bundle transaction ", ToString(i), " failed: ">> \o e.message,
           <<>>)

\* Variant of BundleTxError that counts members from one.
BundleTxError_OneBased(i, e) ==
  RpcError(e.code,
           <<"Bundle transaction ", ToString(i + 1), " failed: ">> \o e.message,
           e.data)

\* Lines 138-142: code and data pass through, the message gets the index.
BundleTxError(i, e) ==
  RpcError(e.code,
           <<"Bundle transaction ", ToString(i), " failed: ">> \o e.message,
           e.data)

\* Variant of SignatureParseError that reports an internal error.
SignatureParseError_Internal(e) ==
  RpcError("InternalError", <<"Failed to parse signature: ">> \o e, <<>>)

\* Lines 131-133.
SignatureParseError(e) == InvalidParams(<<"Failed to parse signature: ">> \o e)

\* Variant of Join that writes the separator after every element.
RECURSIVE Join_Trailing(_, _)
Join_Trailing(strs, sep) ==
  IF strs = <<>> THEN <<>>
  ELSE strs[1] \o <<sep>> \o Join_Trailing(Tail(strs), sep)

\* Variant of Join that leaves the separator out.
RECURSIVE Join_NoSeparator(_, _)
Join_NoSeparator(strs, sep) ==
  IF strs = <<>> THEN <<>>
  ELSE strs[1] \o Join_NoSeparator(Tail(strs), sep)

\* [String]::join(",")
RECURSIVE Join(_, _)
Join(strs, sep) ==
  IF strs = <<>> THEN <<>>
  ELSE IF Len(strs) = 1 THEN strs[1]
  ELSE strs[1] \o <<sep>> \o Join(Tail(strs), sep)

\* hex::encode(Sha256::digest(bytes)): the digest is not computed; it is
\* kept as a tagged copy of its input, so two identifiers are equal exactly
\* when their digest inputs are.
Sha256Hex(input) == <<"sha256:">> \o input

\* Lines 150-158.
BundleId(signatures) ==
  Sha256Hex(Join([k \in 1..Len(signatures) |-> SignatureToString(signatures[k])], ","))

(* --------------------------- simulateBundle ---------------------------- *)
\* RpcSimulateTransactionConfig::default()
DefaultSimConfig == [some |-> FALSE, sig_verify |-> FALSE, encoding |-> NoneV]

\* Option<RpcSimulateTransactionConfig> values a caller passes.
SimConfigs ==
  {DefaultSimConfig} \cup
  [some : {TRUE}, sig_verify : BOOLEAN,
   encoding : {NoneV, "binary", "base58", "base64", "json"}]

\* UiTransactionEncoding::into_binary_encoding of the resolved encoding
\* (lines 177-178): the legacy "binary" and "base58" are Base58, "base64" is
\* Base64, and any other encoding has no binary form (NoneV).
BinaryEncoding(cfg) ==
  LET tx_encoding == IF cfg.encoding = NoneV THEN "base58" ELSE cfg.encoding
  IN  IF tx_encoding \in {"binary", "base58"} THEN "base58"
      ELSE IF tx_encoding = "base64" THEN "base64"
      ELSE NoneV

\* Lines 179-181.
UnsupportedEncoding(cfg) ==
  InvalidParams(<<"unsupported encoding: ", cfg.encoding,
                  ". Supported encodings: base58, base64">>)

\* Variant of DecodeError that counts members from one.
DecodeError_OneBased(i, e) ==
  RpcError(e.code,
           <<"Failed to decode transaction ", ToString(i + 1), ": ">> \o e.message,
           e.data)

\* Lines 192-196.
DecodeError(i, e) ==
  RpcError(e.code,
           <<"Failed to decode transaction ", ToString(i), ": ">> \o e.message,
           e.data)

\* Variant of DecodeAll that collects the decoded transactions last to first.
RECURSIVE DecodeAll_Reversed(_, _, _)
DecodeAll_Reversed(txs, enc, i) ==
  IF i = Len(txs) THEN [ok |-> TRUE, txs |-> <<>>, err |-> NoError, decodes |-> 0]
  ELSE LET d == DecodeAndDeserialize(txs[i + 1], enc)
       IN  IF ~d.ok
             THEN [ok |-> FALSE, txs |-> <<>>, err |-> DecodeError(i, d.err),
                   decodes |-> 1]
             ELSE LET rest == DecodeAll_Reversed(txs, enc, i + 1)
                  IN  [ok |-> rest.ok, txs |-> rest.txs \o <<d.tx>>,
                       err |-> rest.err, decodes |-> 1 + rest.decodes]

\* Lines 185-199: decode in order, stop at the first failure.  decodes is
\* the number of decode calls made.
RECURSIVE DecodeAll(_, _, _)
DecodeAll(txs, enc, i) ==
  IF i = Len(txs) THEN [ok |-> TRUE, txs |-> <<>>, err |-> NoError, decodes |-> 0]
  ELSE LET d == DecodeAndDeserialize(txs[i + 1], enc)
       IN  IF ~d.ok
             THEN [ok |-> FALSE, txs |-> <<>>, err |-> DecodeError(i, d.err),
                   decodes |-> 1]
             ELSE LET rest == DecodeAll(txs, enc, i + 1)
                  IN  [ok |-> rest.ok, txs |-> <<d.tx>> \o rest.txs,
                       err |-> rest.err, decodes |-> 1 + rest.decodes]

\* Variant of SimulatePrepare that looks at the context before the encoding.
SimulatePrepare_ContextFirst(txs, cfg, m) ==
  IF txs = <<>>
    THEN [r |-> Err(InvalidParams(<<"Bundle cannot be empty">>)),
          txs |-> <<>>, decodes |-> 0]
  ELSE IF ~m THEN [r |-> Err(NodeUnhealthy), txs |-> <<>>, decodes |-> 0]
  ELSE IF BinaryEncoding(cfg) = NoneV
    THEN [r |-> Err(UnsupportedEncoding(cfg)), txs |-> <<>>, decodes |-> 0]
  ELSE LET d == DecodeAll(txs, BinaryEncoding(cfg), 0)
       IN  IF ~d.ok THEN [r |-> Err(d.err), txs |-> <<>>, decodes |-> d.decodes]
           ELSE [r |-> Ok(<<>>), txs |-> d.txs, decodes |-> d.decodes]

\* Lines 172-206: everything simulate_bundle does before the engine call.
SimulatePrepare(txs, cfg, m) ==
  IF txs = <<>>
    THEN [r |-> Err(InvalidParams(<<"Bundle cannot be empty">>)),
          txs |-> <<>>, decodes |-> 0]
  ELSE IF BinaryEncoding(cfg) = NoneV
    THEN [r |-> Err(UnsupportedEncoding(cfg)), txs |-> <<>>, decodes |-> 0]
  ELSE LET d == DecodeAll(txs, BinaryEncoding(cfg), 0)
       IN  IF ~d.ok THEN [r |-> Err(d.err), txs |-> <<>>, decodes |-> d.decodes]
           ELSE IF ~m THEN [r |-> Err(NodeUnhealthy), txs |-> <<>>,
                            decodes |-> d.decodes]
           ELSE [r |-> Ok(<<>>), txs |-> d.txs, decodes |-> d.decodes]

\* The text encoding applied to return data (lines 231 and 250).
EncodeReturnData(data) == Base58Encode(data)

\* Lines 226-233 and 245-252.  The program id is copied through as text and
\* is left out of the model.
UiReturnData(data) ==
  IF data = <<>> THEN <<>>
  ELSE <<[data |-> EncodeReturnData(data), encoding |-> "base64"]>>

\* Variant of SimulateResult that reports no logs for a failed member.
SimulateResult_NoLogsOnFailure(sim_result) ==
  [err                |-> IF sim_result.ok THEN <<>> ELSE <<sim_result.err>>,
   logs               |-> IF sim_result.ok THEN <<sim_result.logs>> ELSE <<>>,
   accounts           |-> <<>>,
   units_consumed     |-> <<sim_result.units>>,
   return_data        |-> UiReturnData(sim_result.return_data),
   inner_instructions |-> <<>>]

\* Lines 219-258: one engine outcome as RpcSimulateTransactionResult.
\* An absent (None) field is <<>>, a present one a one-element sequence.
SimulateResult(sim_result) ==
  [err                |-> IF sim_result.ok THEN <<>> ELSE <<sim_result.err>>,
   logs               |-> <<sim_result.logs>>,
   accounts           |-> <<>>,
   units_consumed     |-> <<sim_result.units>>,
   return_data        |-> UiReturnData(sim_result.return_data),
   inner_instructions |-> <<>>]

\* Variant of RpcResults that returns the outcomes last to first.
RpcResults_Reversed(results, s) ==
  [k \in 1..Len(results) |->
     [context |-> [slot |-> s],
      value |-> SimulateResult(results[Len(results) + 1 - k])]]

\* Lines 215-264: every engine outcome, in order, under the one slot.
RpcResults(results, s) ==
  [k \in 1..Len(results) |->
     [context |-> [slot |-> s], value |-> SimulateResult(results[k])]]

(* ------------------------------ state ---------------------------------- *)
VARIABLES
  pc,                 \* position of the request handler
  method,             \* "none", "sendBundle" or "simulateBundle"
  transactions,       \* the request's encoded transaction strings
  config,             \* the request's config
  meta,               \* TRUE when the request carries a RunloopContext
  idx,                \* send_bundle: index of the next member
  bundle_signatures,  \* send_bundle: signatures collected so far
  decoded_txs,        \* simulate_bundle: the decoded transactions
  simulation_results, \* simulate_bundle: the engine's outcomes
  response,           \* the handler's return value
  bal,                \* execution context: the account balance
  slot,               \* execution context: latest absolute slot
  events,             \* history: calls of send_transaction, in order
  decodes,            \* history: decode calls made by the handler
  engineCalls,        \* history: calls of SvmLocker::simulate_bundle
  slotReads,          \* history: calls of get_latest_absolute_slot
  nSlotAdvance,       \* slot advances so far
  nExternal,          \* submissions by other requests so far
  sigsA, sigsB,       \* identifier derivation: two signature lists
  idA, idB            \* identifier derivation: their bundle ids

vars == <<pc, method, transactions, config, meta, idx, bundle_signatures,
          decoded_txs, simulation_results, response, bal, slot, events,
          decodes, engineCalls, slotReads, nSlotAdvance, nExternal,
          sigsA, sigsB, idA, idB>>

local == <<idx, bundle_signatures, decoded_txs, simulation_results>>
ctx   == <<bal, slot, nSlotAdvance, nExternal>>
derive == <<sigsA, sigsB, idA, idB>>

\* Bundles a caller sends: every sequence of at most MaxBundle strings.
Bundles == UNION {[1..n -> TxStrings] : n \in 0..MaxBundle}

\* The handler and the execution context before a request arrives.
HandlerInit ==
  /\ pc = "idle"
  /\ method = "none"
  /\ transactions = <<>>
  /\ config = DefaultSendConfig
  /\ meta = FALSE
  /\ idx = 0
  /\ bundle_signatures = <<>>
  /\ decoded_txs = <<>>
  /\ simulation_results = <<>>
  /\ response = Err(NoError)
  /\ bal = 0
  /\ slot = 0
  /\ events = <<>>
  /\ decodes = 0
  /\ engineCalls = <<>>
  /\ slotReads = 0
  /\ nSlotAdvance = 0
  /\ nExternal = 0

Init ==
  /\ HandlerInit
  /\ sigsA = <<>> /\ sigsB = <<>>
  /\ idA = <<>> /\ idB = <<>>

(* ----------------------------- actions --------------------------------- *)
\* send_bundle is called: lines 111-123.
SendBundleCall ==
  /\ pc = "idle"
  /\ \E txs \in Bundles, cfg \in SendConfigs, m \in BOOLEAN :
       LET pre == SendBundlePrecheck(txs, m)
       IN  /\ method' = "sendBundle"
           /\ transactions' = txs
           /\ config' = cfg
           /\ meta' = m
           /\ IF pre.ok THEN pc' = "send_loop" /\ UNCHANGED response
                        ELSE pc' = "done" /\ response' = pre
  /\ UNCHANGED <<derive, local, ctx, events, decodes, engineCalls, slotReads>>

\* Balance that results from the successful calls of send_transaction in
\* a history, replayed in order from the initial balance.
RECURSIVE ReplayBalance(_)
ReplayBalance(evs) ==
  IF evs = <<>> THEN 0
  ELSE LET b == ReplayBalance(SubSeq(evs, 1, Len(evs) - 1))
           e == evs[Len(evs)]
       IN  IF e.ok THEN SendTransaction(b, e.tx_data, e.config, TRUE).bal ELSE b

\* Variant of SendBundleStep that, when a member fails, takes back the
\* effects of the members submitted before it.
SendBundleStep_Rollback ==
  /\ pc = "send_loop"
  /\ idx < Len(transactions)
  /\ \E sigOk \in BOOLEAN :
       LET tx_data == transactions[idx + 1]
           cfg     == SubmitConfig(config)
           r       == SendTransaction(bal, tx_data, cfg, sigOk)
           parsed  == SignatureFromStr(r.sig)
       IN  /\ events' = Append(events, [by |-> "bundle", idx |-> idx,
                                        tx_data |-> tx_data, config |-> cfg,
                                        ok |-> r.ok, sig |-> r.sig, err |-> r.err])
           /\ bal' = IF r.ok THEN r.bal
                    ELSE ReplayBalance(SelectSeq(events, LAMBDA e : e.by = "other"))
           /\ IF r.ok /\ parsed.ok
                THEN /\ bundle_signatures' = Append(bundle_signatures, parsed.sig)
                     /\ idx' = idx + 1
                     /\ pc' = IF idx + 1 = Len(transactions)
                                THEN "send_finish" ELSE "send_loop"
                     /\ UNCHANGED response
              ELSE IF r.ok
                THEN /\ response' = Err(SignatureParseError(parsed.err))
                     /\ pc' = "done"
                     /\ UNCHANGED <<idx, bundle_signatures>>
              ELSE /\ response' = Err(BundleTxError(idx, r.err))
                   /\ pc' = "done"
                   /\ UNCHANGED <<idx, bundle_signatures>>
  /\ UNCHANGED <<derive, method, transactions, config, meta, decoded_txs,
                 simulation_results, slot, decodes, engineCalls, slotReads,
                 nSlotAdvance, nExternal>>

\* Variant of SendBundleStep that submits a failed member again.
SendBundleStep_Retry ==
  /\ pc = "send_loop"
  /\ idx < Len(transactions)
  /\ \E sigOk \in BOOLEAN :
       LET tx_data == transactions[idx + 1]
           cfg     == SubmitConfig(config)
           r       == SendTransaction(bal, tx_data, cfg, sigOk)
           parsed  == SignatureFromStr(r.sig)
       IN  /\ events' = Append(events, [by |-> "bundle", idx |-> idx,
                                        tx_data |-> tx_data, config |-> cfg,
                                        ok |-> r.ok, sig |-> r.sig, err |-> r.err])
           /\ bal' = r.bal
           /\ IF r.ok /\ parsed.ok
                THEN /\ bundle_signatures' = Append(bundle_signatures, parsed.sig)
                     /\ idx' = idx + 1
                     /\ pc' = IF idx + 1 = Len(transactions)
                                THEN "send_finish" ELSE "send_loop"
                     /\ UNCHANGED response
              ELSE IF r.ok
                THEN /\ response' = Err(SignatureParseError(parsed.err))
                     /\ pc' = "done"
                     /\ UNCHANGED <<idx, bundle_signatures>>
              ELSE /\ pc' = "send_loop"
                   /\ UNCHANGED <<idx, bundle_signatures, response>>
  /\ UNCHANGED <<derive, method, transactions, config, meta, decoded_txs,
                 simulation_results, slot, decodes, engineCalls, slotReads,
                 nSlotAdvance, nExternal>>

\* One iteration of the loop of lines 126-145.
SendBundleStep ==
  /\ pc = "send_loop"
  /\ idx < Len(transactions)
  /\ \E sigOk \in BOOLEAN :
       LET tx_data == transactions[idx + 1]
           cfg     == SubmitConfig(config)
           r       == SendTransaction(bal, tx_data, cfg, sigOk)
           parsed  == SignatureFromStr(r.sig)
       IN  /\ events' = Append(events, [by |-> "bundle", idx |-> idx,
                                        tx_data |-> tx_data, config |-> cfg,
                                        ok |-> r.ok, sig |-> r.sig, err |-> r.err])
           /\ bal' = r.bal
           /\ IF r.ok /\ parsed.ok
                THEN /\ bundle_signatures' = Append(bundle_signatures, parsed.sig)
                     /\ idx' = idx + 1
                     /\ pc' = IF idx + 1 = Len(transactions)
                                THEN "send_finish" ELSE "send_loop"
                     /\ UNCHANGED response
              ELSE IF r.ok
                THEN /\ response' = Err(SignatureParseError(parsed.err))
                     /\ pc' = "done"
                     /\ UNCHANGED <<idx, bundle_signatures>>
              ELSE /\ response' = Err(BundleTxError(idx, r.err))
                   /\ pc' = "done"
                   /\ UNCHANGED <<idx, bundle_signatures>>
  /\ UNCHANGED <<derive, method, transactions, config, meta, decoded_txs,
                 simulation_results, slot, decodes, engineCalls, slotReads,
                 nSlotAdvance, nExternal>>

\* Lines 147-158: the bundle id of the collected signatures.
SendBundleFinish ==
  /\ pc = "send_finish"
  /\ response' = Ok(BundleId(bundle_signatures))
  /\ pc' = "done"
  /\ UNCHANGED <<derive, method, transactions, config, meta, local, ctx, events,
                 decodes, engineCalls, slotReads>>

\* simulate_bundle is called: lines 172-209.
SimulateBundleCall ==
  /\ pc = "idle"
  /\ \E txs \in Bundles, cfg \in SimConfigs, m \in BOOLEAN :
       LET pre == SimulatePrepare(txs, cfg, m)
       IN  /\ method' = "simulateBundle"
           /\ transactions' = txs
           /\ config' = cfg
           /\ meta' = m
           /\ decodes' = pre.decodes
           /\ decoded_txs' = pre.txs
           /\ IF pre.r.ok THEN pc' = "sim_engine" /\ UNCHANGED response
                          ELSE pc' = "done" /\ response' = pre.r
  /\ UNCHANGED <<derive, idx, bundle_signatures, simulation_results, ctx, events,
                 engineCalls, slotReads>>

\* Variant of SimulateBundleEngine that runs the bundle on the execution
\* context itself instead of on a copy.
SimulateBundleEngine_Commits ==
  /\ pc = "sim_engine"
  /\ LET results == SimulateBundleFrom(bal, decoded_txs, config.sig_verify)
     IN  /\ simulation_results' = results
         /\ bal' = results[Len(results)].bal
  /\ engineCalls' = Append(engineCalls, [txs |-> decoded_txs,
                                         sigverify |-> config.sig_verify,
                                         slot |-> slot, bal |-> bal])
  /\ pc' = "sim_respond"
  /\ UNCHANGED <<derive, method, transactions, config, meta, idx,
                 bundle_signatures, decoded_txs, response, slot, nSlotAdvance,
                 nExternal, events, decodes, slotReads>>

\* Line 212: the chained simulation, run by the engine under its lock.
SimulateBundleEngine ==
  /\ pc = "sim_engine"
  /\ simulation_results' = SimulateBundleFrom(bal, decoded_txs, config.sig_verify)
  /\ engineCalls' = Append(engineCalls, [txs |-> decoded_txs,
                                         sigverify |-> config.sig_verify,
                                         slot |-> slot, bal |-> bal])
  /\ pc' = "sim_respond"
  /\ UNCHANGED <<derive, method, transactions, config, meta, idx, bundle_signatures,
                 decoded_txs, response, ctx, events, decodes, slotReads>>

\* Lines 215-266: read the slot, shape the results, return.
SimulateBundleRespond ==
  /\ pc = "sim_respond"
  /\ slotReads' = slotReads + 1
  /\ response' = Ok(RpcResults(simulation_results, slot))
  /\ pc' = "done"
  /\ UNCHANGED <<derive, method, transactions, config, meta, local, ctx, events,
                 decodes, engineCalls>>

\* The runloop moves the execution context to the next slot.
AdvanceSlot ==
  /\ pc # "done"
  /\ nSlotAdvance < MaxSlotAdvance
  /\ slot' = slot + 1
  /\ nSlotAdvance' = nSlotAdvance + 1
  /\ UNCHANGED <<derive, pc, method, transactions, config, meta, local, response, bal,
                 events, decodes, engineCalls, slotReads, nExternal>>

\* Another request (sendTransaction, or a member of another bundle)
\* submits one transaction through the same primitive.
ExternalSendTransaction ==
  /\ pc # "done"
  /\ nExternal < MaxExternal
  /\ \E tx \in Txs :
       LET tx_data == Base58Encode(Serialize(tx))
           r       == SendTransaction(bal, tx_data, DefaultSendConfig, TRUE)
       IN  /\ events' = Append(events, [by |-> "other", idx |-> 0,
                                        tx_data |-> tx_data,
                                        config |-> DefaultSendConfig,
                                        ok |-> r.ok, sig |-> r.sig, err |-> r.err])
           /\ bal' = r.bal
  /\ nExternal' = nExternal + 1
  /\ UNCHANGED <<derive, pc, method, transactions, config, meta, local, response, slot,
                 decodes, engineCalls, slotReads, nSlotAdvance>>

Next ==
  \/ SendBundleCall
  \/ SendBundleStep
  \/ SendBundleFinish
  \/ SimulateBundleCall
  \/ SimulateBundleEngine
  \/ SimulateBundleRespond
  \/ AdvanceSlot
  \/ ExternalSendTransaction

Spec == Init /\ [][Next]_vars

(* ---------------------- identifier derivation -------------------------- *)
\* A signature of SigBytes bytes ending in the given two bytes.
PadSignature(b) == Repeat(0, SigBytes - 2) \o b

\* Signatures the derivation is applied to; the Base58 text of the first
\* followed by that of the second reads the same as the text of the third
\* followed by that of the first.
DeriveSignatures ==
  {PadSignature(<<0, 1>>), PadSignature(<<13, 37>>), PadSignature(<<0, 59>>)}

\* Non-empty signature lists of at most MaxBundle signatures.
SignatureLists == UNION {[1..n -> DeriveSignatures] : n \in 1..MaxBundle}

DeriveInit ==
  /\ HandlerInit
  /\ sigsA \in SignatureLists
  /\ sigsB \in SignatureLists
  /\ idA = <<>> /\ idB = <<>>

\* Lines 147-158 applied to each of the two lists.
DeriveBundleIds ==
  /\ idA = <<>>
  /\ idA' = BundleId(sigsA)
  /\ idB' = BundleId(sigsB)
  /\ UNCHANGED <<pc, method, transactions, config, meta, local, response, ctx,
                 events, decodes, engineCalls, slotReads, sigsA, sigsB>>

DeriveNext == DeriveBundleIds

DeriveSpec == DeriveInit /\ [][DeriveNext]_vars

(* --------------------------- properties -------------------------------- *)
\* The calls of send_transaction made by the bundle handler, in order.
BundleCalls == SelectSeq(events, LAMBDA e : e.by = "bundle")

Returned == pc = "done"
SendReturned == method = "sendBundle" /\ Returned
SimReturned == method = "simulateBundle" /\ Returned

\* C1: fail-fast submission.  When send_transaction fails for a member of
\* the bundle, that call is the last one send_bundle makes, the calls before
\* it are members 0..i-1 in order and all succeeded, and send_bundle has
\* returned an error whose message names index i.
C1_FailFastSubmission ==
  \A p \in 1..Len(BundleCalls) :
    ~BundleCalls[p].ok =>
      /\ p = Len(BundleCalls)
      /\ \A q \in 1..p : /\ BundleCalls[q].idx = q - 1
                         /\ BundleCalls[q].tx_data = transactions[q]
      /\ \A q \in 1..(p - 1) : BundleCalls[q].ok
      /\ Cardinality({q \in 1..p : BundleCalls[q].ok}) = p - 1
      /\ Returned
      /\ ~response.ok
      /\ Len(response.err.message) >= 3
      /\ response.err.message[1] = "Bundle transaction "
      /\ response.err.message[2] = ToString(p - 1)

\* C1 witness: a bundle of three whose second member failed.
C1_Witness ==
  /\ SendReturned
  /\ Len(transactions) = 3
  /\ Len(BundleCalls) = 2
  /\ BundleCalls[1].ok
  /\ ~BundleCalls[2].ok

\* C2: every call send_bundle makes to send_transaction carries a config
\* with skip_preflight set.
C2_SkipPreflightForced ==
  \A p \in 1..Len(BundleCalls) : BundleCalls[p].config.skip_preflight

\* C3: no other request changes the execution context between the
\* submission of the first and of the last member of a bundle.
C3_BundleSerialized ==
  ~ \E p, q, r \in 1..Len(events) :
      /\ p < q /\ q < r
      /\ events[p].by = "bundle" /\ events[p].idx = 0
      /\ events[q].by = "other" /\ events[q].ok
      /\ events[r].by = "bundle" /\ events[r].idx = Len(transactions) - 1

\* Indices (0-based) of the members that do not decode under the request's
\* binary encoding.
UndecodableMembers ==
  {k \in 0..(Len(transactions) - 1) :
     ~DecodeAndDeserialize(transactions[k + 1], BinaryEncoding(config)).ok}

Min(S) == CHOOSE x \in S : \A y \in S : x <= y

\* C4: fail-fast decode.  In simulate_bundle with a supported encoding, when
\* some member does not decode the engine is never called, nothing is
\* simulated, and the call returns an error naming the smallest such index.
C4_FailFastDecode ==
  (/\ method = "simulateBundle"
   /\ BinaryEncoding(config) # NoneV
   /\ UndecodableMembers # {})
  => /\ engineCalls = <<>>
     /\ simulation_results = <<>>
     /\ Returned
     /\ ~response.ok
     /\ Len(response.err.message) >= 3
     /\ response.err.message[1] = "Failed to decode transaction "
     /\ response.err.message[2] = ToString(Min(UndecodableMembers))

\* C4 witness: three members, the second the only one that does not decode.
C4_Witness ==
  /\ SimReturned
  /\ Len(transactions) = 3
  /\ BinaryEncoding(config) # NoneV
  /\ UndecodableMembers = {1}

\* C5: non-empty return data is reported as its Base64 encoding.
C5_ReturnDataBase64 ==
  (SimReturned /\ response.ok) =>
    \A k \in 1..Len(response.value) :
      simulation_results[k].return_data # <<>> =>
        /\ response.value[k].value.return_data # <<>>
        /\ response.value[k].value.return_data[1].encoding = "base64"
        /\ response.value[k].value.return_data[1].data
             = Base64Encode(simulation_results[k].return_data)

\* C6: with a non-empty bundle and no context, both methods return
\* node-unhealthy (no slot lag) without decoding, submitting or simulating.
C6_UnhealthyNoPartialWork ==
  (Returned /\ method # "none" /\ transactions # <<>> /\ ~meta) =>
    /\ ~response.ok
    /\ response.err = NodeUnhealthy
    /\ decodes = 0
    /\ BundleCalls = <<>>
    /\ engineCalls = <<>>

\* C7: an empty bundle is rejected by both methods with invalid-params and
\* without any engine call, whatever the config and the context.
C7_EmptyBundle ==
  (method # "none" /\ transactions = <<>>) =>
    /\ Returned
    /\ ~response.ok
    /\ response.err.code = "InvalidParams"
    /\ response.err.message = <<"Bundle cannot be empty">>
    /\ BundleCalls = <<>>
    /\ engineCalls = <<>>
    /\ slotReads = 0
    /\ decodes = 0

\* C7 witness: send_bundle of an empty bundle without a context.
C7_Witness ==
  SendReturned /\ transactions = <<>> /\ ~meta /\ config.some

\* Balance the k-th member (1-based) of the simulated bundle runs against:
\* the balance at the engine call, then the effect of each earlier member.
RECURSIVE ChainBalance(_)
ChainBalance(k) ==
  IF k = 1 THEN engineCalls[1].bal
  ELSE Execute(ChainBalance(k - 1),
               DecodeAndDeserialize(transactions[k - 1], BinaryEncoding(config)).tx).bal

\* Outcome of the k-th member in the chained simulation.
MemberOutcome(k) ==
  Execute(ChainBalance(k),
          DecodeAndDeserialize(transactions[k], BinaryEncoding(config)).tx)

\* The result at position k reports the outcome of the member at position k.
ResultIsOutcomeOf(k) ==
  /\ response.value[k].value.logs = <<MemberOutcome(k).logs>>
  /\ response.value[k].value.units_consumed = <<MemberOutcome(k).units>>
  /\ (response.value[k].value.err = <<>>) = MemberOutcome(k).ok

C9_SlotOfSimulation ==
  (SimReturned /\ response.ok) =>
    \A k \in 1..Len(response.value) :
      response.value[k].context.slot = engineCalls[1].slot

\* Digest input expected for the first k calls of the bundle: the signature
\* strings send_transaction returned, a comma between neighbours.
RECURSIVE ExpectedDigestInput(_)
ExpectedDigestInput(k) ==
  IF k = 1 THEN BundleCalls[1].sig
  ELSE ExpectedDigestInput(k - 1) \o <<",">> \o BundleCalls[k].sig

\* C10: send_bundle returns a bundle id only when every member was
\* submitted successfully, one call per member in order, and the id is the
\* digest of the n signature strings joined by single commas.
C10_BundleIdOfAllSignatures ==
  (SendReturned /\ response.ok) =>
    LET n == Len(transactions)
    IN  /\ Len(BundleCalls) = n
        /\ \A k \in 1..n : /\ BundleCalls[k].ok
                           /\ BundleCalls[k].idx = k - 1
                           /\ BundleCalls[k].tx_data = transactions[k]
                           /\ SignatureFromStr(BundleCalls[k].sig).ok
        /\ response.value = Sha256Hex(ExpectedDigestInput(n))
        /\ Cardinality({j \in 1..Len(response.value) : response.value[j] = ","})
             = n - 1

\* C10 witness: a bundle of three different-signature members accepted.
C10_Witness ==
  /\ SendReturned /\ response.ok
  /\ Len(transactions) = 3
  /\ BundleCalls[1].sig # BundleCalls[2].sig

\* C11: identifier derivation is order-sensitive.  The bundle ids of two
\* non-empty signature lists are equal exactly when the lists are equal
\* element by element, and so are their comma-joined digest inputs.
C11_IdentifierOrderSensitive ==
  (idA # <<>> /\ idB # <<>>) =>
    /\ (idA = idB) <=> (sigsA = sigsB)
    /\ (Tail(idA) = Tail(idB)) <=> (sigsA = sigsB)

\* C11 witness: the ids of a two-signature list and of its reversal.
C11_Witness ==
  /\ idA # <<>> /\ idB # <<>>
  /\ Len(sigsA) = 2 /\ Len(sigsB) = 2
  /\ sigsA[1] = sigsB[2] /\ sigsA[2] = sigsB[1]
  /\ sigsA # sigsB

\* The calls of send_transaction made by other requests, in order.
OtherCalls == SelectSeq(events, LAMBDA e : e.by = "other")

\* C12: no rollback.  The balance of the execution context is always the
\* result of every successful submission so far, in order; after a
\* send_bundle that failed at member i > 0, members 0..i-1 were submitted
\* successfully and their effects are still part of the balance.
C12_NoRollback ==
  /\ bal = ReplayBalance(events)
  /\ (SendReturned /\ ~response.ok /\ Len(BundleCalls) > 1) =>
       \A q \in 1..(Len(BundleCalls) - 1) : BundleCalls[q].ok

\* C12 witness: a bundle failed at member 1 or later and the balance differs
\* from what the other requests alone would have left.
C12_Witness ==
  /\ SendReturned /\ ~response.ok
  /\ Len(BundleCalls) > 1
  /\ ~BundleCalls[Len(BundleCalls)].ok
  /\ bal # ReplayBalance(OtherCalls)

C14_SimulationHasNoEffect ==
  method = "simulateBundle" =>
    /\ BundleCalls = <<>>
    /\ bal = ReplayBalance(OtherCalls)
    /\ \A k \in 1..Len(simulation_results) :
         simulation_results[k] = MemberOutcome(k)

\* C14 witness: a deposit followed by a withdrawal simulated against an
\* empty account: the withdrawal succeeds and the account is still empty.
C14_Witness ==
  /\ SimReturned /\ response.ok
  /\ decoded_txs = <<"dep", "wd">>
  /\ engineCalls[1].bal = 0
  /\ simulation_results[2].ok
  /\ bal = 0
  /\ OtherCalls = <<>>

\* Strings that occur in a message.
Pieces(message) == {message[j] : j \in 1..Len(message)}

\* The outcome C15 describes: an invalid-params error naming the request's
\* encoding, with nothing decoded and no engine call.
RejectedAsUnsupported ==
  /\ Returned
  /\ ~response.ok
  /\ response.err.code = "InvalidParams"
  /\ "unsupported encoding: " \in Pieces(response.err.message)
  /\ config.encoding \in Pieces(response.err.message)
  /\ decodes = 0
  /\ engineCalls = <<>>
  /\ slotReads = 0

\* C15 as stated: in simulate_bundle every encoding other than Base58 and
\* Base64 is rejected with an invalid-params error naming the value, before
\* any decoding and any engine call, whatever the transactions and the
\* context.
C15_UnsupportedEncodingRejected ==
  (method = "simulateBundle" /\ config.encoding \notin {NoneV, "base58", "base64"})
    => RejectedAsUnsupported

\* C15 amended: the same for a non-empty bundle and an encoding other than
\* Base58, Base64 and the legacy "binary" form of Base58.
C15_UnsupportedEncodingRejectedNonEmpty ==
  (/\ method = "simulateBundle"
   /\ transactions # <<>>
   /\ config.encoding \notin {NoneV, "binary", "base58", "base64"})
    => RejectedAsUnsupported

\* C15 witness: JSON encoding, no context, a member that is not well formed.
C15_Witness ==
  /\ SimReturned
  /\ config.encoding = "json"
  /\ ~meta
  /\ Len(transactions) = 2
  /\ transactions[2] = <<"!">>

\* C16: when send_transaction fails for a member, send_bundle returns the
\* primitive's error code and data unchanged, and the primitive's message
\* prefixed with the failing index.
C16_ErrorPassThrough ==
  \A p \in 1..Len(BundleCalls) :
    ~BundleCalls[p].ok =>
      /\ Returned
      /\ ~response.ok
      /\ response.err.code = BundleCalls[p].err.code
      /\ response.err.data = BundleCalls[p].err.data
      /\ response.err.message
           = <<"Bundle transaction ", ToString(BundleCalls[p].idx), " failed: ">>
               \o BundleCalls[p].err.message

\* C16 witness: member 1 failed with an error that carries data.
C16_Witness ==
  /\ SendReturned
  /\ Len(BundleCalls) = 2
  /\ ~BundleCalls[2].ok
  /\ BundleCalls[2].err.data # <<>>
  /\ response.err.data # <<>>

\* C17: no retries and strict order.  The calls send_bundle makes are the
\* members of a prefix of the bundle, each once and in bundle order, and
\* every call but the last returned a signature that was accepted.
C17_NoRetryStrictOrder ==
  /\ Len(BundleCalls) <= Len(transactions)
  /\ \A p \in 1..Len(BundleCalls) :
       /\ BundleCalls[p].idx = p - 1
       /\ BundleCalls[p].tx_data = transactions[p]
  /\ \A p \in 1..(Len(BundleCalls) - 1) :
       /\ BundleCalls[p].ok
       /\ SignatureFromStr(BundleCalls[p].sig).ok
  /\ Returned => idx <= Len(BundleCalls)

\* C17 witness: the third member of a bundle of three failed.
C17_Witness ==
  /\ SendReturned /\ ~response.ok
  /\ Len(transactions) = 3
  /\ Len(BundleCalls) = 3
  /\ ~BundleCalls[3].ok

\* C18: when send_transaction succeeds for member i with text that is not a
\* signature, send_bundle returns invalid-params and no bundle id, makes no
\* further call, and members 0..i stay submitted.
C18_MalformedSignature ==
  \A p \in 1..Len(BundleCalls) :
    (BundleCalls[p].ok /\ ~SignatureFromStr(BundleCalls[p].sig).ok) =>
      /\ p = Len(BundleCalls)
      /\ Returned
      /\ ~response.ok
      /\ response.value = <<>>
      /\ response.err.code = "InvalidParams"
      /\ response.err.message[1] = "Failed to parse signature: "
      /\ \A q \in 1..p : BundleCalls[q].ok
      /\ bal = ReplayBalance(events)

\* C18 witness: member 1 of three came back with text that is not a
\* signature.
C18_Witness ==
  /\ SendReturned
  /\ Len(transactions) = 3
  /\ Len(BundleCalls) = 2
  /\ BundleCalls[2].ok
  /\ ~SignatureFromStr(BundleCalls[2].sig).ok

\* C19: result shaping.  A step result has an error exactly when the engine
\* outcome is a failure, and it is the engine's error; logs and compute
\* units are the engine's; return data is absent exactly when the engine's
\* is empty; accounts and inner instructions are absent.
C19_ResultShaping ==
  (SimReturned /\ response.ok) =>
    /\ Len(response.value) = Len(simulation_results)
    /\ \A k \in 1..Len(response.value) :
         LET v == response.value[k].value
             e == simulation_results[k]
         IN  /\ (v.err # <<>>) <=> ~e.ok
             /\ ~e.ok => v.err = <<e.err>>
             /\ v.logs = <<e.logs>>
             /\ v.units_consumed = <<e.units>>
             /\ (v.return_data = <<>>) <=> (e.return_data = <<>>)
             /\ v.accounts = <<>>
             /\ v.inner_instructions = <<>>

\* C19 witness: a success without return data followed by a failure with
\* return data.
C19_Witness ==
  /\ SimReturned /\ response.ok
  /\ Len(response.value) = 2
  /\ response.value[1].value.err = <<>>
  /\ response.value[1].value.return_data = <<>>
  /\ response.value[2].value.err # <<>>
  /\ response.value[2].value.return_data # <<>>

\* C20: a simulate_bundle call that passes validation calls the engine
\* exactly once, with the decoding of every input string in input order and
\* the request's sig_verify; no call is made more than once.
C20_OneEngineCall ==
  /\ Len(engineCalls) <= 1
  /\ (/\ method = "simulateBundle"
      /\ transactions # <<>>
      /\ BinaryEncoding(config) # NoneV
      /\ UndecodableMembers = {}
      /\ meta)
     => /\ Returned => Len(engineCalls) = 1
        /\ \A c \in 1..Len(engineCalls) :
             /\ Len(engineCalls[c].txs) = Len(transactions)
             /\ \A k \in 1..Len(transactions) :
                  engineCalls[c].txs[k]
                    = DecodeAndDeserialize(transactions[k], BinaryEncoding(config)).tx
             /\ engineCalls[c].sigverify = config.sig_verify

\* C20 witness: three members of both kinds simulated with sig_verify set.
C20_Witness ==
  /\ SimReturned
  /\ Len(engineCalls) = 1
  /\ Len(transactions) = 3
  /\ config.sig_verify
  /\ engineCalls[1].txs[1] # engineCalls[1].txs[3]

====
